---- MODULE Spec2Model ----
(***************************************************************************)
(* A model of the FastifyJs workshop examples: the products API of         *)
(* Workshop 1, the CSRF-protected forms of Workshop 2, the session         *)
(* authentication of Workshops 3 and 4, the wiki of Workshop 3 and the     *)
(* task-manager API of Workshop 5.  Every route handler is one action; a   *)
(* handler that awaits (argon2.hash, argon2.verify, a database call) is    *)
(* split at the await, where the event loop may run another request.       *)
(***************************************************************************)
EXTENDS Integers, Sequences, FiniteSets, TLC

VARIABLES
    app,        \* which example application is running
    users,      \* fastify.users / fastify.dataStore.users: username -> record
    userTable,  \* rows of the SQLite table "user"
    pages,      \* fastify.dataStore.pages: title -> page
    session,    \* the session of each client (its user keys and its flash)
    req,        \* the requests suspended at an await
    last,       \* the reply most recently sent
    issued,     \* the CSRF tokens reply.generateCsrf() has handed out
    QuotesDB,   \* fastify.QuotesDB
    Quotes,     \* the implicit global Quotes of routes/search.js
    logged,     \* what fastify.log.info has written
    nreq,       \* the number of requests received so far
    loggedOut,  \* history: the clients whose last login was ended by GET /logout
    server,     \* the server process: down, syncing (running, sync pending) or up
    taskTable,  \* rows of the Prisma table "task" and its autoincrement counter
    sockets,    \* the WebSocket connections of the chat
    messageTable, \* rows of the Prisma table "message"
    fname,      \* the argument of a call of fastify.allowedFile
    allowed     \* what the call returned, once it has

authVars == <<users, userTable, pages, session>>
formVars == <<issued, QuotesDB, Quotes, logged>>
apiVars == <<server, taskTable>>
chatVars == <<sockets, messageTable>>
fileVars == <<fname, allowed>>
vars == <<app, users, userTable, pages, session, req, last, issued, QuotesDB, Quotes, logged, nreq, loggedOut,
         server, taskTable, sockets, messageTable, fname, allowed>>

(***************************************************************************)
(* Bounds of the model.                                                    *)
(***************************************************************************)
MaxRequests == 4

Clients == {"c1", "c2"}
Usernames == {"alice", "bob"}

\* the credentials the forms are submitted with
Credentials == {<<"alice", "pw1">>, <<"alice", "pw2">>, <<"bob", "pw1">>}
Reqs == {1, 2}

None == "none"

(***************************************************************************)
(* argon2: the hash of a password is a value of another kind than the      *)
(* password; verify(hash, password) holds exactly for the hashed password. *)
(***************************************************************************)
NoHash == [alg |-> "none", pw |-> None]

Argon2HashPlain(password) == [alg |-> "plain", pw |-> password]

Argon2Hash(password) == [alg |-> "argon2id", pw |-> password]

Argon2VerifyAny(hash, password) == hash.alg = "argon2id"

Argon2Verify(hash, password) == hash.alg = "argon2id" /\ hash.pw = password

(***************************************************************************)
(* Sessions and flash messages (@fastify/session, @fastify/flash).         *)
(***************************************************************************)
categories == <<"danger", "success", "info">>

NoFlash == [danger |-> <<>>, success |-> <<>>, info |-> <<>>]

EmptySession == [user |-> None, user_id |-> 0, username |-> None, flash |-> NoFlash]

\* request.flash(category, message): append to the session's list
RequestFlash(s, category, message) ==
    [s EXCEPT !.flash[category] = Append(@, message)]

RECURSIVE TagAll(_, _)
TagAll(category, msgs) ==
    IF msgs = <<>> THEN <<>>
    ELSE <<[category |-> category, message |-> Head(msgs)]>> \o TagAll(category, Tail(msgs))

\* collectMessages without the read: the messages are left in the session
CollectedFlashKept(f) == f

\* reply.flash(category) returns the list and deletes it from the session
CollectedFlash(f) == NoFlash

CollectMessages(f) ==
    TagAll(categories[1], f[categories[1]])
        \o TagAll(categories[2], f[categories[2]])
        \o TagAll(categories[3], f[categories[3]])

(***************************************************************************)
(* Replies.                                                                *)
(***************************************************************************)
NoBody == <<>>

Reply(c, route, kind, target, msgs, uname, body) ==
    [client |-> c, route |-> route, kind |-> kind, target |-> target,
     messages |-> msgs, username |-> uname, body |-> body]

NoReply == Reply(None, None, None, None, <<>>, None, NoBody)

Redirect(c, route, target) == Reply(c, route, "redirect", target, <<>>, None, NoBody)

View(c, route, view, msgs, uname) == Reply(c, route, "view", view, msgs, uname, NoBody)

\* a rejected promise: Fastify's default error handler answers 500
ServerError(c, route) == Reply(c, route, "error", "500", <<>>, None, NoBody)

Idle == [pc |-> "idle", client |-> None, username |-> None, password |-> None,
         hash |-> NoHash, id |-> 0]

InFlight(pc, c, u, p, h, i) ==
    [pc |-> pc, client |-> c, username |-> u, password |-> p, hash |-> h, id |-> i]

\* the table "task" before any insert
NoTasks == [rows |-> <<>>, seq |-> 0]

\* the chat connections; ws numbers the states of a socket: 1 is OPEN, 2 is
\* CLOSING, 3 is CLOSED
Sockets == {"s1", "s2"}

\* a socket no client has opened yet
NoSocket == [readyState |-> 3, connected |-> FALSE, userId |-> 0, listening |-> FALSE,
             received |-> <<>>]

NoSockets == [s \in Sockets |-> NoSocket]

AuthApps == {"W4Memory", "W4Sqlite", "W3Wiki"}

\* a request arrives: the model follows at most MaxRequests of them
Receive ==
    /\ server # "down"
    /\ nreq < MaxRequests
    /\ nreq' = nreq + 1

\* the clients are interchangeable: the first request is c1's
Senders == IF nreq = 0 THEN {"c1"} ELSE Clients

\* a request that awaits takes the first free slot (the slots are anonymous)
FreeSlot(r) ==
    /\ req[r].pc = "idle"
    /\ \A q \in Reqs : q < r => req[q].pc # "idle"

(***************************************************************************)
(* Workshop 4, Example 1: authentication over the in-memory fastify.users. *)
(***************************************************************************)
Registered(u) == u \in DOMAIN users

UserRecord(passwordHash) == [passwordHash |-> passwordHash]

\* GET /register and GET /login: collect the flash messages and render
GetRegister(c) ==
    /\ Receive
    /\ app \in AuthApps
    /\ session' = [session EXCEPT ![c].flash = CollectedFlash(@)]
    /\ last' = View(c, "GET /register", "register", CollectMessages(session[c].flash), None)
    /\ UNCHANGED <<fileVars, chatVars, apiVars, loggedOut, app, users, userTable, pages, req, formVars>>

GetLogin(c) ==
    /\ Receive
    /\ app \in AuthApps
    /\ session' = [session EXCEPT ![c].flash = CollectedFlash(@)]
    /\ last' = View(c, "GET /login", "login", CollectMessages(session[c].flash), None)
    /\ UNCHANGED <<fileVars, chatVars, apiVars, loggedOut, app, users, userTable, pages, req, formVars>>

\* POST /register up to its await of argon2.hash
PostRegister(r, c, username, password) ==
    /\ Receive
    /\ app = "W4Memory"
    /\ FreeSlot(r)
    /\ IF Registered(username)
       THEN /\ session' = [session EXCEPT ![c] = RequestFlash(@, "danger", "Username already exists!")]
            /\ last' = Redirect(c, "POST /register", "/register")
            /\ UNCHANGED req
       ELSE /\ req' = [req EXCEPT ![r] = InFlight("hashing", c, username, password, NoHash, 0)]
            /\ UNCHANGED <<session, last>>
    /\ UNCHANGED <<fileVars, chatVars, apiVars, loggedOut, app, users, userTable, pages, formVars>>

\* fastify.users[username] = { passwordHash }
StoreUser(username, passwordHash) ==
    (username :> UserRecord(passwordHash)) @@ users

\* POST /register from the resolution of argon2.hash on
PostRegisterHashed(r) ==
    /\ UNCHANGED nreq
    /\ app = "W4Memory"
    /\ req[r].pc = "hashing"
    /\ users' = StoreUser(req[r].username, Argon2Hash(req[r].password))
    /\ session' = [session EXCEPT ![req[r].client] =
                      RequestFlash(@, "success", "Registration successful! Please log in.")]
    /\ last' = Redirect(req[r].client, "POST /register", "/login")
    /\ req' = [req EXCEPT ![r] = Idle]
    /\ UNCHANGED <<fileVars, chatVars, apiVars, loggedOut, app, userTable, pages, formVars>>

\* POST /login up to its await of argon2.verify
PostLogin(r, c, username, password) ==
    /\ Receive
    /\ app = "W4Memory"
    /\ FreeSlot(r)
    /\ IF ~Registered(username)
       THEN /\ session' = [session EXCEPT ![c] = RequestFlash(@, "danger", "Invalid username or password.")]
            /\ last' = Redirect(c, "POST /login", "/login")
            /\ UNCHANGED req
       ELSE /\ req' = [req EXCEPT ![r] =
                         InFlight("verifying", c, username, password, users[username].passwordHash, 0)]
            /\ UNCHANGED <<session, last>>
    /\ UNCHANGED <<fileVars, chatVars, apiVars, loggedOut, app, users, userTable, pages, formVars>>

\* POST /login from the resolution of argon2.verify on
PostLoginVerified(r) ==
    /\ UNCHANGED nreq
    /\ app = "W4Memory"
    /\ req[r].pc = "verifying"
    /\ IF ~Argon2Verify(req[r].hash, req[r].password)
       THEN /\ session' = [session EXCEPT ![req[r].client] =
                              RequestFlash(@, "danger", "Invalid username or password.")]
            /\ last' = Redirect(req[r].client, "POST /login", "/login")
            /\ UNCHANGED loggedOut
       ELSE /\ loggedOut' = loggedOut \ {req[r].client}
            /\ session' = [session EXCEPT ![req[r].client] =
                              RequestFlash([@ EXCEPT !.user = req[r].username],
                                           "success", "Logged in successfully!")]
            /\ last' = Redirect(req[r].client, "POST /login", "/")
    /\ req' = [req EXCEPT ![r] = Idle]
    /\ UNCHANGED <<fileVars, chatVars, apiVars, app, users, userTable, pages, formVars>>

\* a logout that only clears the flash and keeps the user keys
SessionKept(s) == [s EXCEPT !.flash = NoFlash]

\* request.session.destroy()
SessionDestroyed(s) == EmptySession

\* GET /logout
GetLogout(c) ==
    /\ Receive
    /\ app \in AuthApps
    /\ session' = [session EXCEPT ![c] = SessionDestroyed(@)]
    /\ last' = Redirect(c, "GET /logout", "/login")
    /\ loggedOut' = IF session[c].user # None \/ session[c].username # None
                    THEN loggedOut \cup {c} ELSE loggedOut
    /\ UNCHANGED <<fileVars, chatVars, apiVars, app, users, userTable, pages, req, formVars>>

\* a guard that lets every request through
LoggedInAlways(s) == TRUE

\* the test of loginRequired: request.session.get('user')
LoggedIn(s) == s.user # None

\* GET /profile behind loginRequired (the wrapper of plugins/auth.js, or the
\* preHandler hook: either replies with the redirect and the handler is not run)
GetProfile(c) ==
    /\ Receive
    /\ app \in AuthApps
    /\ IF ~LoggedIn(session[c])
       THEN /\ session' = [session EXCEPT ![c] =
                              RequestFlash(@, "danger", "You must log in to access this page.")]
            /\ last' = Redirect(c, "GET /profile", "/login")
       ELSE /\ last' = View(c, "GET /profile", "profile", <<>>, session[c].user)
            /\ UNCHANGED session
    /\ UNCHANGED <<fileVars, chatVars, apiVars, loggedOut, app, users, userTable, pages, req, formVars>>

(***************************************************************************)
(* Workshop 4, Example 3: the same routes over the SQLite table            *)
(*   user(id INTEGER PRIMARY KEY AUTOINCREMENT, username TEXT UNIQUE NOT   *)
(*        NULL, password_hash TEXT NOT NULL).                              *)
(***************************************************************************)
\* the apps over a "user" table: SQLite (Example 3), Sequelize (Example 6)
SqlApps == {"W4Sqlite", "W4Sequelize"}

NoRow == [id |-> 0, username |-> None, password_hash |-> NoHash]

\* SELECT * FROM user WHERE username = ?  (db.get: the first row, or none)
FindByUsername(username) ==
    IF \E i \in 1..Len(userTable) : userTable[i].username = username
    THEN userTable[CHOOSE i \in 1..Len(userTable) :
                      /\ userTable[i].username = username
                      /\ \A j \in 1..(i - 1) : userTable[j].username # username]
    ELSE NoRow

\* a table without the UNIQUE constraint on username
UniqueViolationNever(username) == FALSE

\* the UNIQUE constraint of schema.sql
UniqueViolation(username) == \E i \in 1..Len(userTable) : userTable[i].username = username

\* INSERT INTO user (username, password_hash) VALUES (?, ?)
InsertUser(username, passwordHash) ==
    Append(userTable, [id |-> Len(userTable) + 1, username |-> username,
                       password_hash |-> passwordHash])

\* POST /register up to its await of argon2.hash.  The request arrives at any
\* moment, so the SELECT it awaits first is taken at the moment it reads the table.
PostRegisterDb(r, c, username, password) ==
    /\ Receive
    /\ app \in SqlApps
    /\ FreeSlot(r)
    /\ IF FindByUsername(username) # NoRow
       THEN /\ session' = [session EXCEPT ![c] =
                              RequestFlash(@, "danger", "Username already exists!")]
            /\ last' = Redirect(c, "POST /register", "/register")
            /\ UNCHANGED req
       ELSE /\ req' = [req EXCEPT ![r] = InFlight("regHash", c, username, password, NoHash, 0)]
            /\ UNCHANGED <<session, last>>
    /\ UNCHANGED <<fileVars, chatVars, apiVars, loggedOut, app, users, userTable, pages, formVars>>

\* argon2.hash resolves: the INSERT is awaited
RegisterHashedDb(r) ==
    /\ app \in SqlApps
    /\ req[r].pc = "regHash"
    /\ req' = [req EXCEPT ![r].pc = "regInsert", ![r].hash = Argon2Hash(req[r].password)]
    /\ UNCHANGED <<fileVars, chatVars, apiVars, loggedOut, app, authVars, last, formVars, nreq>>

\* the INSERT resolves, or rejects on the UNIQUE constraint
RegisterInserted(r) ==
    /\ app \in SqlApps
    /\ req[r].pc = "regInsert"
    /\ IF UniqueViolation(req[r].username)
       THEN /\ last' = ServerError(req[r].client, "POST /register")
            /\ UNCHANGED <<userTable, session>>
       ELSE /\ userTable' = InsertUser(req[r].username, req[r].hash)
            /\ session' = [session EXCEPT ![req[r].client] =
                              RequestFlash(@, "success", "Registration successful! Please log in.")]
            /\ last' = Redirect(req[r].client, "POST /register", "/login")
    /\ req' = [req EXCEPT ![r] = Idle]
    /\ UNCHANGED <<fileVars, chatVars, apiVars, loggedOut, app, users, pages, formVars, nreq>>

\* POST /login up to its await of argon2.verify (the SELECT as in POST /register)
PostLoginDb(r, c, username, password) ==
    /\ Receive
    /\ app \in SqlApps
    /\ FreeSlot(r)
    /\ LET user == FindByUsername(username) IN
       IF user = NoRow
       THEN /\ session' = [session EXCEPT ![c] =
                              RequestFlash(@, "danger", "Invalid username or password.")]
            /\ last' = Redirect(c, "POST /login", "/login")
            /\ UNCHANGED req
       ELSE /\ req' = [req EXCEPT ![r] =
                         InFlight("loginVerify", c, user.username, password,
                                  user.password_hash, user.id)]
            /\ UNCHANGED <<session, last>>
    /\ UNCHANGED <<fileVars, chatVars, apiVars, loggedOut, app, users, userTable, pages, formVars>>

\* argon2.verify resolves
LoginVerifiedDb(r) ==
    /\ app \in SqlApps
    /\ req[r].pc = "loginVerify"
    /\ IF ~Argon2Verify(req[r].hash, req[r].password)
       THEN /\ session' = [session EXCEPT ![req[r].client] =
                              RequestFlash(@, "danger", "Invalid username or password.")]
            /\ last' = Redirect(req[r].client, "POST /login", "/login")
            /\ UNCHANGED loggedOut
       ELSE /\ loggedOut' = loggedOut \ {req[r].client}
            /\ session' = [session EXCEPT ![req[r].client] =
                              RequestFlash([@ EXCEPT !.user_id = req[r].id,
                                                     !.user = req[r].username],
                                           "success", "Logged in successfully!")]
            /\ last' = Redirect(req[r].client, "POST /login", "/")
    /\ req' = [req EXCEPT ![r] = Idle]
    /\ UNCHANGED <<fileVars, chatVars, apiVars, app, users, userTable, pages, formVars, nreq>>

(***************************************************************************)
(* Request bodies and JSON Schema validation.  A string is known by its    *)
(* text and its length; a body maps the fields it carries to their values. *)
(***************************************************************************)
Str(text, len) == [type |-> "string", text |-> text, len |-> len]

Undefined == [type |-> "undefined", text |-> "undefined", len |-> 0]

Field(body, f) == IF f \in DOMAIN body THEN body[f] ELSE Undefined

\* a property name: the value converted to a string
PropertyKey(v) == v.text

\* a mutant: only the type of a property is validated
PropertyValidTypeOnly(p, v) == v.type = p.type

PropertyValid(p, v) ==
    /\ v.type = p.type
    /\ "minLength" \in DOMAIN p => v.len >= p.minLength
    /\ "maxLength" \in DOMAIN p => v.len <= p.maxLength

\* a body schema: the required fields are present, the described ones conform
Validates(schema, body) ==
    /\ schema.required \subseteq DOMAIN body
    /\ \A f \in DOMAIN body \cap DOMAIN schema.properties :
          PropertyValid(schema.properties[f], body[f])

(***************************************************************************)
(* Workshop 3: registration, login and the wiki over fastify.dataStore.    *)
(***************************************************************************)
\* avatar: null
NoAvatar == [time |-> 0, name |-> <<>>]

WikiUserRecord(hashedPassword) == [password |-> hashedPassword, avatar |-> NoAvatar]

\* POST /register up to its await of argon2.hash
PostRegisterWiki(r, c, username, password) ==
    /\ Receive
    /\ app = "W3Wiki"
    /\ FreeSlot(r)
    /\ IF Registered(username)
       THEN /\ session' = [session EXCEPT ![c] = RequestFlash(@, "danger", "Username already exists!")]
            /\ last' = Redirect(c, "POST /register", "/register")
            /\ UNCHANGED req
       ELSE /\ req' = [req EXCEPT ![r] = InFlight("hashing", c, username, password, NoHash, 0)]
            /\ UNCHANGED <<session, last>>
    /\ UNCHANGED <<fileVars, chatVars, apiVars, loggedOut, app, users, userTable, pages, formVars>>

\* POST /register from the resolution of argon2.hash on
PostRegisterWikiHashed(r) ==
    /\ app = "W3Wiki"
    /\ req[r].pc = "hashing"
    /\ users' = (req[r].username :> WikiUserRecord(Argon2Hash(req[r].password))) @@ users
    /\ session' = [session EXCEPT ![req[r].client] =
                      RequestFlash(@, "success", "Registration successful! Please log in.")]
    /\ last' = Redirect(req[r].client, "POST /register", "/login")
    /\ req' = [req EXCEPT ![r] = Idle]
    /\ UNCHANGED <<fileVars, chatVars, apiVars, loggedOut, app, userTable, pages, formVars, nreq>>

\* POST /login up to its await of argon2.verify
PostLoginWiki(r, c, username, password) ==
    /\ Receive
    /\ app = "W3Wiki"
    /\ FreeSlot(r)
    /\ IF ~Registered(username)
       THEN /\ session' = [session EXCEPT ![c] = RequestFlash(@, "danger", "Invalid username or password.")]
            /\ last' = Redirect(c, "POST /login", "/login")
            /\ UNCHANGED req
       ELSE /\ req' = [req EXCEPT ![r] =
                         InFlight("verifying", c, username, password, users[username].password, 0)]
            /\ UNCHANGED <<session, last>>
    /\ UNCHANGED <<fileVars, chatVars, apiVars, loggedOut, app, users, userTable, pages, formVars>>

\* POST /login from the resolution of argon2.verify on
PostLoginWikiVerified(r) ==
    /\ app = "W3Wiki"
    /\ req[r].pc = "verifying"
    /\ IF Argon2Verify(req[r].hash, req[r].password)
       THEN /\ loggedOut' = loggedOut \ {req[r].client}
            /\ session' = [session EXCEPT ![req[r].client] =
                              RequestFlash([@ EXCEPT !.username = req[r].username],
                                           "success", "Login successful!")]
            /\ last' = Redirect(req[r].client, "POST /login", "/home")
       ELSE /\ session' = [session EXCEPT ![req[r].client] =
                              RequestFlash(@, "danger", "Invalid username or password.")]
            /\ last' = Redirect(req[r].client, "POST /login", "/login")
            /\ UNCHANGED loggedOut
    /\ req' = [req EXCEPT ![r] = Idle]
    /\ UNCHANGED <<fileVars, chatVars, apiVars, app, users, userTable, pages, formVars, nreq>>

\* GET /profile of the wiki application
GetProfileWiki(c) ==
    /\ Receive
    /\ app = "W3Wiki"
    /\ IF session[c].username = None
       THEN /\ session' = [session EXCEPT ![c] =
                              RequestFlash(@, "danger", "You must be logged in to view your profile.")]
            /\ last' = Redirect(c, "GET /profile", "/login")
       ELSE /\ session' = [session EXCEPT ![c].flash = CollectedFlash(@)]
            /\ last' = View(c, "GET /profile", "profile", CollectMessages(session[c].flash),
                            session[c].username)
    /\ UNCHANGED <<fileVars, chatVars, apiVars, loggedOut, app, users, userTable, pages, req, formVars>>

(***************************************************************************)
(* Workshop 3: the avatar upload.  A file name is the sequence of the      *)
(* parts that its dots separate; request.session is the object loaded when *)
(* the request arrived, so the handler reads the same username after its   *)
(* await.                                                                  *)
(***************************************************************************)
NoFile == <<>>

\* a file name is the sequence of its characters
ALLOWED_EXTENSIONS ==
    {<<"p", "n", "g">>, <<"j", "p", "g">>, <<"j", "p", "e", "g">>, <<"g", "i", "f">>}

\* the lower-case letter of each upper-case letter of the model
LowerCaseOf ==
    "P" :> "p" @@ "N" :> "n" @@ "G" :> "g" @@ "J" :> "j" @@ "E" :> "e" @@
    "I" :> "i" @@ "F" :> "f" @@ "X" :> "x"

\* String.prototype.toLowerCase
ExtToLowerCase(ext) ==
    [i \in 1..Len(ext) |-> IF ext[i] \in DOMAIN LowerCaseOf THEN LowerCaseOf[ext[i]] ELSE ext[i]]

\* String.prototype.includes, for one character
includes(str, ch) == \E i \in 1..Len(str) : str[i] = ch

\* String.prototype.split, for a separator of one character
RECURSIVE split(_, _)
split(str, sep) ==
    IF ~includes(str, sep) THEN <<str>>
    ELSE LET i == CHOOSE k \in 1..Len(str) :
                      str[k] = sep /\ \A j \in 1..(k - 1) : str[j] # sep
         IN  <<SubSeq(str, 1, i - 1)>> \o split(SubSeq(str, i + 1, Len(str)), sep)

\* a mutant: the piece after the first separator
PopSecond(parts) == parts[2]

\* Array.prototype.pop: the last element
pop(parts) == parts[Len(parts)]

\* a mutant: every file name with a dot is accepted
AllowedFileAnyExtension(filename) == includes(filename, ".")

\* fastify.allowedFile
allowedFile(filename) ==
    IF ~includes(filename, ".") THEN FALSE
    ELSE ExtToLowerCase(pop(split(filename, "."))) \in ALLOWED_EXTENSIONS

\* `${Date.now()}_${file.filename}`
AvatarName(now, filename) == [time |-> now, name |-> filename]

Uploading(c, username, now, filename) ==
    [pc |-> "writing", client |-> c, username |-> username, password |-> None,
     hash |-> NoHash, id |-> now, file |-> filename]

\* POST /profile up to its await of fs.promises.writeFile
PostProfile(r, c, file) ==
    /\ Receive
    /\ app = "W3Wiki"
    /\ FreeSlot(r)
    /\ IF session[c].username = None
       THEN /\ session' = [session EXCEPT ![c] =
                              RequestFlash(@, "danger", "You must be logged in to upload an avatar.")]
            /\ last' = Redirect(c, "POST /profile", "/login")
            /\ UNCHANGED req
       ELSE IF file = NoFile
       THEN /\ session' = [session EXCEPT ![c] = RequestFlash(@, "danger", "No file selected.")]
            /\ last' = Redirect(c, "POST /profile", "/profile")
            /\ UNCHANGED req
       ELSE IF ~allowedFile(file)
       THEN /\ session' = [session EXCEPT ![c] =
                              RequestFlash(@, "danger", "Invalid file type. Allowed: png, jpg, jpeg, gif.")]
            /\ last' = Redirect(c, "POST /profile", "/profile")
            /\ UNCHANGED req
       ELSE /\ req' = [req EXCEPT ![r] = Uploading(c, session[c].username, nreq, file)]
            /\ UNCHANGED <<session, last>>
    /\ UNCHANGED <<fileVars, chatVars, apiVars, loggedOut, app, users, userTable, pages, formVars>>

\* POST /profile from the resolution of writeFile on
PostProfileWritten(r) ==
    /\ app = "W3Wiki"
    /\ req[r].pc = "writing"
    /\ users' = [users EXCEPT ![req[r].username].avatar = AvatarName(req[r].id, req[r].file)]
    /\ session' = [session EXCEPT ![req[r].client] = RequestFlash(@, "success", "Avatar updated!")]
    /\ last' = Redirect(req[r].client, "POST /profile", "/profile")
    /\ req' = [req EXCEPT ![r] = Idle]
    /\ UNCHANGED <<fileVars, chatVars, apiVars, loggedOut, app, userTable, pages, formVars, nreq>>

\* the files the upload form is submitted with
Files ==
    {NoFile, <<"m", "e", ".", "P", "N", "G">>, <<"m", "e">>,
     <<"m", "e", ".", "p", "n", "g", ".", "e", "x", "e">>}

createSchema ==
    [required |-> {"title", "content"},
     properties |-> [title |-> [type |-> "string", minLength |-> 1, maxLength |-> 50],
                     content |-> [type |-> "string", minLength |-> 1]]]

Page(content, author) == [content |-> content, author |-> author, html_content |-> Undefined]

HasPage(key) == key \in DOMAIN pages

\* GET /wiki/:page_name
GetWikiPage(c, page_name) ==
    /\ Receive
    /\ app = "W3Wiki"
    /\ session' = [session EXCEPT ![c].flash = CollectedFlash(@)]
    /\ IF ~HasPage(page_name)
       THEN /\ last' = View(c, "GET /wiki/:page_name", "404", CollectMessages(session[c].flash), None)
            /\ UNCHANGED pages
       ELSE /\ pages' = [pages EXCEPT ![page_name].html_content = pages[page_name].content]
            /\ last' = View(c, "GET /wiki/:page_name", "wiki_page", <<>>, None)
    /\ UNCHANGED <<fileVars, chatVars, apiVars, loggedOut, app, users, userTable, req, formVars>>

\* GET /create
GetCreate(c) ==
    /\ Receive
    /\ app = "W3Wiki"
    /\ IF session[c].username = None
       THEN /\ session' = [session EXCEPT ![c] =
                              RequestFlash([@ EXCEPT !.flash = CollectedFlash(@)], "danger",
                                           "You must be logged in to create a page.")]
            /\ last' = Redirect(c, "GET /create", "/login")
       ELSE /\ session' = [session EXCEPT ![c].flash = CollectedFlash(@)]
            /\ last' = View(c, "GET /create", "create_page", CollectMessages(session[c].flash), None)
    /\ UNCHANGED <<fileVars, chatVars, apiVars, loggedOut, app, users, userTable, pages, req, formVars>>

\* a POST /create that does not look at the session
CreateAllowedAlways(s) == TRUE

\* the test of POST /create: request.session.get('username')
CreateAllowed(s) == s.username # None

\* fastify.dataStore.pages[title] = { content, author }
StorePage(title, content, author) ==
    (PropertyKey(title) :> Page(content, author)) @@ pages

\* POST /create: the route is registered without a schema
PostCreate(c, body) ==
    /\ Receive
    /\ app = "W3Wiki"
    /\ IF ~CreateAllowed(session[c])
       THEN /\ session' = [session EXCEPT ![c] =
                              RequestFlash(@, "danger", "You must be logged in to create a page.")]
            /\ last' = Reply(c, "POST /create", "redirect", "/login", <<>>, None, body)
            /\ UNCHANGED pages
       ELSE /\ pages' = StorePage(Field(body, "title"), Field(body, "content"), session[c].username)
            /\ last' = Reply(c, "POST /create", "redirect", "/wiki/:title", <<>>, None, body)
            /\ UNCHANGED session
    /\ UNCHANGED <<fileVars, chatVars, apiVars, loggedOut, app, users, userTable, req, formVars>>

\* the forms POST /create is submitted with
TitleHome == Str("Home", 4)
TitleEmpty == Str("", 0)
TitleLong == Str("A title of fifty-one characters", 51)
ContentOk == Str("<p>Welcome</p>", 14)
ContentEmpty == Str("", 0)

CreateBodies ==
    { [title |-> TitleHome, content |-> ContentOk],
      [title |-> TitleEmpty, content |-> ContentOk],
      [title |-> TitleLong, content |-> ContentOk],
      [title |-> TitleHome, content |-> ContentEmpty],
      [content |-> ContentOk],
      [title |-> TitleHome] }

PageNames == {PropertyKey(TitleHome), PropertyKey(TitleLong)}

\* the stores, the sessions and the event loop of a process just started
InitStores ==
    /\ users = <<>>
    /\ userTable = <<>>
    /\ pages = <<>>
    /\ session = [c \in Clients |-> EmptySession]
    /\ req = [r \in Reqs |-> Idle]
    /\ last = NoReply
    /\ issued = {}
    /\ QuotesDB = <<>>
    /\ Quotes = <<>>
    /\ logged = <<>>
    /\ nreq = 0
    /\ loggedOut = {}
    /\ taskTable = NoTasks
    /\ sockets = NoSockets
    /\ messageTable = <<>>
    /\ fname = <<>>
    /\ allowed = <<>>

InitEmpty ==
    /\ InitStores
    /\ server = "up"

InitAuth ==
    /\ app \in AuthApps
    /\ InitEmpty

NextAuth ==
    \/ \E c \in Senders : GetRegister(c)
    \/ \E c \in Senders : GetLogin(c)
    \/ \E r \in Reqs, c \in Senders, cr \in Credentials : PostRegister(r, c, cr[1], cr[2])
    \/ \E r \in Reqs : PostRegisterHashed(r)
    \/ \E r \in Reqs, c \in Senders, cr \in Credentials : PostLogin(r, c, cr[1], cr[2])
    \/ \E r \in Reqs : PostLoginVerified(r)
    \/ \E c \in Senders : GetLogout(c)
    \/ \E c \in Senders : GetProfile(c)
    \/ \E r \in Reqs, c \in Senders, cr \in Credentials : PostRegisterDb(r, c, cr[1], cr[2])
    \/ \E r \in Reqs : RegisterHashedDb(r)
    \/ \E r \in Reqs : RegisterInserted(r)
    \/ \E r \in Reqs, c \in Senders, cr \in Credentials : PostLoginDb(r, c, cr[1], cr[2])
    \/ \E r \in Reqs : LoginVerifiedDb(r)
    \/ \E r \in Reqs, c \in Senders, cr \in Credentials : PostRegisterWiki(r, c, cr[1], cr[2])
    \/ \E r \in Reqs : PostRegisterWikiHashed(r)
    \/ \E r \in Reqs, c \in Senders, cr \in Credentials : PostLoginWiki(r, c, cr[1], cr[2])
    \/ \E r \in Reqs : PostLoginWikiVerified(r)
    \/ \E c \in Senders : GetProfileWiki(c)
    \/ \E c \in Senders, n \in PageNames : GetWikiPage(c, n)
    \/ \E c \in Senders : GetCreate(c)
    \/ \E c \in Senders, body \in CreateBodies : PostCreate(c, body)

SpecAuth == InitAuth /\ [][NextAuth]_vars

\* the paths the wiki application registers a GET route for (app.js, routes/)
WikiRoutes == {"/", "/register", "/login", "/logout", "/profile", "/create", "/wiki/:page_name"}

\* the reply of setNotFoundHandler
NotFound(c, route) == Reply(c, route, "notfound", "404", <<>>, None, NoBody)

\* GET of a path without parameters: the home page of app.js, or no route
GetPath(c, url) ==
    /\ Receive
    /\ app = "W3Wiki"
    /\ last' = IF url \notin WikiRoutes THEN NotFound(c, "GET " \o url)
               ELSE View(c, "GET " \o url, "home", <<>>, None)
    /\ UNCHANGED <<fileVars, chatVars, apiVars, loggedOut, app, users, userTable, pages, session, req, formVars>>

\* the wiki application with its profile page
ProfileCredentials == {<<"alice", "pw1">>, <<"bob", "pw1">>}

InitProfile ==
    /\ InitAuth
    /\ app = "W3Wiki"

NextProfile ==
    \/ \E r \in Reqs, c \in Senders, cr \in ProfileCredentials : PostRegisterWiki(r, c, cr[1], cr[2])
    \/ \E r \in Reqs : PostRegisterWikiHashed(r)
    \/ \E r \in Reqs, c \in Senders, cr \in ProfileCredentials : PostLoginWiki(r, c, cr[1], cr[2])
    \/ \E r \in Reqs : PostLoginWikiVerified(r)
    \/ \E c \in Senders : GetLogout(c)
    \/ \E c \in Senders : GetProfileWiki(c)
    \/ \E r \in Reqs, c \in Senders, file \in Files : PostProfile(r, c, file)
    \/ \E r \in Reqs : PostProfileWritten(r)
    \/ \E c \in Senders, url \in {"/", "/home"} : GetPath(c, url)

SpecProfile == InitProfile /\ [][NextProfile]_vars

(***************************************************************************)
(* Workshop 4, Example 6: the same routes through Sequelize over the file  *)
(* database.db.  The sessions live in the memory of the process; the       *)
(* table lives in the file.  models/index.js calls sequelize.sync({ force: *)
(* true }) each time the process starts and does not wait for it: the      *)
(* plugin is loaded and the server listens while the sync is pending, and  *)
(* the sync takes effect at some later moment.                             *)
(***************************************************************************)
\* sequelize.sync({ force: true }): DROP TABLE IF EXISTS, then CREATE TABLE
SyncForce == <<>>

\* the server process is stopped: its memory (sessions, suspended handlers) is gone
Stop ==
    /\ app = "W4Sequelize"
    /\ server # "down"
    /\ server' = "down"
    /\ session' = [c \in Clients |-> EmptySession]
    /\ req' = [r \in Reqs |-> Idle]
    /\ UNCHANGED <<fileVars, chatVars, app, users, userTable, pages, last, formVars, nreq, loggedOut, taskTable>>

\* node app.js: the plugin loads the models, which start the sync; the
\* server listens
Start ==
    /\ app = "W4Sequelize"
    /\ server = "down"
    /\ server' = "syncing"
    /\ UNCHANGED <<fileVars, chatVars, app, authVars, req, last, formVars, nreq, loggedOut, taskTable>>

\* the promise of sequelize.sync is fulfilled ('Database synced')
Synced ==
    /\ app = "W4Sequelize"
    /\ server = "syncing"
    /\ server' = "up"
    /\ userTable' = SyncForce
    /\ UNCHANGED <<fileVars, chatVars, app, users, pages, session, req, last, formVars, nreq, loggedOut, taskTable>>

\* the process has just started over a database.db with an empty table
InitSequelize ==
    /\ app = "W4Sequelize"
    /\ InitStores
    /\ server = "syncing"

NextSequelize ==
    \/ \E r \in Reqs, c \in Senders, cr \in Credentials : PostRegisterDb(r, c, cr[1], cr[2])
    \/ \E r \in Reqs : RegisterHashedDb(r)
    \/ \E r \in Reqs : RegisterInserted(r)
    \/ \E r \in Reqs, c \in Senders, cr \in Credentials : PostLoginDb(r, c, cr[1], cr[2])
    \/ \E r \in Reqs : LoginVerifiedDb(r)
    \/ Stop
    \/ Start
    \/ Synced

SpecSequelize == InitSequelize /\ [][NextSequelize]_vars

(***************************************************************************)
(* Workshop 2: the contact form of Example 5 and the quote-sharing task.   *)
(* plugins/csrf.js registers @fastify/csrf-protection, which decorates     *)
(* reply.generateCsrf and fastify.csrfProtection; the routes below name no *)
(* onRequest or preHandler hook.                                           *)
(***************************************************************************)
FormApps == {"W2Contact", "W2Quotes"}

\* the token reply.generateCsrf() gives a client: it verifies against the
\* secret kept in that client's cookie
TokenOf == [c1 |-> Str("token-of-c1", 52), c2 |-> Str("token-of-c2", 52)]

ForgedToken == Str("forged", 6)

\* what a client can put in _csrf: a token the server has issued, or any text
CsrfValues == {TokenOf[c] : c \in issued} \cup {ForgedToken}

\* the check csrfProtection would make of a request
CsrfValid(c, body) ==
    /\ "_csrf" \in DOMAIN body
    /\ c \in issued
    /\ body["_csrf"] = TokenOf[c]

FormReply(c, route, kind, target, body, submittedName, quotes) ==
    [client |-> c, route |-> route, kind |-> kind, target |-> target, body |-> body,
     submittedName |-> submittedName, Quotes |-> quotes]

NoFormReply == FormReply(None, None, None, None, NoBody, Undefined, <<>>)

\* the error handler of app.js: a validation error renders the form again
ValidationError(c, route, view, body) ==
    FormReply(c, route, "errors", view, body, Undefined, <<>>)

\* str.startsWith(prefix), on sequences of characters
StartsWith(str, prefix) ==
    /\ Len(prefix) <= Len(str)
    /\ SubSeq(str, 1, Len(prefix)) = prefix

\* an error handler that knows the share form only
viewNameShareOnly(url) ==
    IF StartsWith(url, <<"/", "s", "h", "a", "r", "e">>) THEN "share" ELSE "undefined"

\* the viewName of the quote task's error handler, from request.url
viewName(url) ==
    IF StartsWith(url, <<"/", "s", "h", "a", "r", "e">>) THEN "share"
    ELSE IF StartsWith(url, <<"/", "s", "e", "a", "r", "c", "h">>) THEN "search"
    ELSE "undefined"

\* the values of request.url that reach POST /share and POST /search: the
\* path, with or without a query string
ShareUrls == {<<"/", "s", "h", "a", "r", "e">>, <<"/", "s", "h", "a", "r", "e", "?", "a", "=", "1">>}
SearchUrls == {<<"/", "s", "e", "a", "r", "c", "h">>, <<"/", "s", "e", "a", "r", "c", "h", "?", "a", "=", "1">>}

contactSchema ==
    [required |-> {"name", "message", "_csrf"},
     properties |-> [name |-> [type |-> "string", minLength |-> 3, maxLength |-> 25],
                     message |-> [type |-> "string", maxLength |-> 200],
                     _csrf |-> [type |-> "string"]]]

shareSchema ==
    [required |-> {"author", "quote", "_csrf"},
     properties |-> [author |-> [type |-> "string", minLength |-> 3, maxLength |-> 25],
                     quote |-> [type |-> "string", minLength |-> 20, maxLength |-> 300],
                     _csrf |-> [type |-> "string"]]]

searchSchema ==
    [required |-> {"author", "_csrf"},
     properties |-> [author |-> [type |-> "string", minLength |-> 3, maxLength |-> 25],
                     _csrf |-> [type |-> "string"]]]

\* GET /contact_csrf, GET /share, GET /search: a token and the form
GetContactCsrf(c) ==
    /\ Receive
    /\ app = "W2Contact"
    /\ issued' = issued \cup {c}
    /\ last' = FormReply(c, "GET /contact_csrf", "view", "contact_csrf", NoBody, Undefined, <<>>)
    /\ UNCHANGED <<fileVars, chatVars, apiVars, loggedOut, app, authVars, req, QuotesDB, Quotes, logged>>

\* POST /contact_csrf
PostContactCsrf(c, body) ==
    /\ Receive
    /\ app = "W2Contact"
    /\ issued' = issued \cup {c}
    /\ IF ~Validates(contactSchema, body)
       THEN /\ last' = ValidationError(c, "POST /contact_csrf", "contact_csrf", body)
            /\ UNCHANGED logged
       ELSE /\ logged' = Append(logged, [name |-> body.name, message |-> body.message])
            /\ last' = FormReply(c, "POST /contact_csrf", "view", "contact_csrf", body,
                                 body.name, <<>>)
    /\ UNCHANGED <<fileVars, chatVars, apiVars, loggedOut, app, authVars, req, QuotesDB, Quotes>>

GetShare(c) ==
    /\ Receive
    /\ app = "W2Quotes"
    /\ issued' = issued \cup {c}
    /\ last' = FormReply(c, "GET /share", "view", "share", NoBody, Undefined, <<>>)
    /\ UNCHANGED <<fileVars, chatVars, apiVars, loggedOut, app, authVars, req, QuotesDB, Quotes, logged>>

\* POST /share
PostShare(c, body) ==
    /\ Receive
    /\ app = "W2Quotes"
    /\ IF ~Validates(shareSchema, body)
       THEN /\ issued' = issued \cup {c}
            /\ \E url \in ShareUrls : last' = ValidationError(c, "POST /share", viewName(url), body)
            /\ UNCHANGED <<QuotesDB, logged>>
       ELSE /\ QuotesDB' = Append(QuotesDB, [author |-> body.author, quote |-> body.quote])
            /\ logged' = Append(logged, [name |-> body.author, message |-> Undefined])
            /\ last' = FormReply(c, "POST /share", "redirect", "/", body, Undefined, <<>>)
            /\ UNCHANGED issued
    /\ UNCHANGED <<fileVars, chatVars, apiVars, loggedOut, app, authVars, req, Quotes>>

GetSearch(c) ==
    /\ Receive
    /\ app = "W2Quotes"
    /\ issued' = issued \cup {c}
    /\ last' = FormReply(c, "GET /search", "view", "search", NoBody, Undefined, <<>>)
    /\ UNCHANGED <<fileVars, chatVars, apiVars, loggedOut, app, authVars, req, QuotesDB, Quotes, logged>>

\* String.prototype.toLowerCase on the author names of the model
ToLowerCase(v) ==
    [v EXCEPT !.text = CASE v.text = "Rumi" -> "rumi"
                         [] v.text = "RUMI" -> "rumi"
                         [] v.text = "Kant" -> "kant"
                         [] OTHER -> v.text]

RECURSIVE Filter(_, _)
\* QuotesDB.filter(quote => quote.author.toLowerCase() === author.toLowerCase())
Filter(quotes, author) ==
    IF quotes = <<>> THEN <<>>
    ELSE (IF ToLowerCase(Head(quotes).author) = ToLowerCase(author)
          THEN <<Head(quotes)>> ELSE <<>>) \o Filter(Tail(quotes), author)

\* POST /search up to its await of reply.generateCsrf: the result of the filter
\* is assigned to the undeclared, hence global, Quotes
PostSearch(r, c, body) ==
    /\ Receive
    /\ app = "W2Quotes"
    /\ FreeSlot(r)
    /\ IF ~Validates(searchSchema, body)
       THEN /\ issued' = issued \cup {c}
            /\ \E url \in SearchUrls : last' = ValidationError(c, "POST /search", viewName(url), body)
            /\ UNCHANGED <<req, Quotes>>
       ELSE /\ Quotes' = Filter(QuotesDB, body.author)
            /\ req' = [req EXCEPT ![r] = [pc |-> "searchToken", client |-> c, body |-> body]]
            /\ UNCHANGED <<issued, last>>
    /\ UNCHANGED <<fileVars, chatVars, apiVars, loggedOut, app, authVars, QuotesDB, logged>>

\* POST /search from the resolution of reply.generateCsrf on: the view gets Quotes
PostSearchRendered(r) ==
    /\ app = "W2Quotes"
    /\ req[r].pc = "searchToken"
    /\ issued' = issued \cup {req[r].client}
    /\ last' = FormReply(req[r].client, "POST /search", "view", "search", req[r].body,
                         Undefined, Quotes)
    /\ req' = [req EXCEPT ![r] = Idle]
    /\ UNCHANGED <<fileVars, chatVars, apiVars, loggedOut, app, authVars, QuotesDB, Quotes, logged, nreq, loggedOut>>

\* the forms the routes are submitted with
NameOk == Str("Alice", 5)
NameShort == Str("Al", 2)
NameLong == Str("a name of 26 characters", 26)
MessageOk == Str("Hello there!", 12)
MessageLong == Str("a message of 201 characters", 201)
AuthorRumi == Str("Rumi", 4)
AuthorUpper == Str("RUMI", 4)
AuthorKant == Str("Kant", 4)
AuthorShort == Str("Lu", 2)
QuoteOk == Str("What you seek is seeking you.", 29)
QuoteShort == Str("Dare to know.", 13)
QuoteLong == Str("a quote of 301 characters", 301)

ContactBodies ==
    { [name |-> NameOk, message |-> MessageOk, _csrf |-> t] : t \in CsrfValues }
    \cup { [name |-> NameOk, message |-> MessageOk],
           [name |-> NameShort, message |-> MessageOk, _csrf |-> ForgedToken],
           [name |-> NameOk, message |-> MessageLong, _csrf |-> ForgedToken],
           [name |-> NameLong, message |-> MessageOk, _csrf |-> ForgedToken],
           [message |-> MessageOk, _csrf |-> ForgedToken],
           [name |-> NameOk, _csrf |-> ForgedToken] }

ShareBodies ==
    { [author |-> a, quote |-> QuoteOk, _csrf |-> t] : a \in {AuthorRumi, AuthorKant}, t \in CsrfValues }
    \cup { [author |-> AuthorRumi, quote |-> QuoteOk],
           [author |-> AuthorShort, quote |-> QuoteOk, _csrf |-> ForgedToken],
           [author |-> AuthorRumi, quote |-> QuoteShort, _csrf |-> ForgedToken],
           [author |-> AuthorRumi, quote |-> QuoteLong, _csrf |-> ForgedToken] }

SearchBodies ==
    { [author |-> a, _csrf |-> t] : a \in {AuthorUpper, AuthorKant}, t \in CsrfValues }
    \cup { [author |-> AuthorRumi],
           [author |-> AuthorShort, _csrf |-> ForgedToken] }

InitForms ==
    /\ app \in FormApps
    /\ users = <<>>
    /\ userTable = <<>>
    /\ pages = <<>>
    /\ session = [c \in Clients |-> EmptySession]
    /\ req = [r \in Reqs |-> Idle]
    /\ last = NoFormReply
    /\ issued = {}
    /\ QuotesDB = <<>>
    /\ Quotes = <<>>
    /\ logged = <<>>
    /\ nreq = 0
    /\ loggedOut = {}
    /\ server = "up"
    /\ taskTable = NoTasks
    /\ sockets = NoSockets
    /\ messageTable = <<>>
    /\ fname = <<>>
    /\ allowed = <<>>

NextForms ==
    \/ \E c \in Senders : GetContactCsrf(c)
    \/ \E c \in Senders, body \in ContactBodies : PostContactCsrf(c, body)
    \/ \E c \in Senders : GetShare(c)
    \/ \E c \in Senders, body \in ShareBodies : PostShare(c, body)
    \/ \E c \in Senders : GetSearch(c)
    \/ \E r \in Reqs, c \in Senders, body \in SearchBodies : PostSearch(r, c, body)
    \/ \E r \in Reqs : PostSearchRendered(r)

SpecForms == InitForms /\ [][NextForms]_vars

(***************************************************************************)
(* Workshop 1, Example 4: the products API.  productsDb is a plain object; *)
(* productsDb[productId] looks the key up among the object's own           *)
(* properties and then along its prototype chain, Object.prototype.        *)
(***************************************************************************)
productsDb ==
    "100" :> [name |-> "Laptop", price |-> 1200] @@
    "101" :> [name |-> "Mouse", price |-> 25] @@
    "102" :> [name |-> "Keyboard", price |-> 75]

\* members every plain object inherits: the function Object (whose name is
\* "Object"), the function toString (whose name is "toString") and the
\* prototype object itself, which has neither a name nor a price
ObjectPrototype ==
    "constructor" :> [name |-> "Object"] @@
    "toString" :> [name |-> "toString"] @@
    "__proto__" :> [length |-> 0]

\* obj[key]
Get(obj, key) ==
    IF key \in DOMAIN obj THEN obj[key]
    ELSE IF key \in DOMAIN ObjectPrototype THEN ObjectPrototype[key]
    ELSE Undefined

\* the serialized responseData: JSON.stringify leaves out a property whose
\* value is undefined
responseData(productId, product, currency) ==
    [k \in {"id", "currency"} \cup ({"name", "price"} \cap DOMAIN product) |->
        IF k = "id" THEN productId
        ELSE IF k = "currency" THEN currency
        ELSE product[k]]

NoQuery == <<>>

Json(c, route, code, body) == Reply(c, route, "json", code, <<>>, None, body)

\* GET /products/:productId
GetProduct(c, productId, query) ==
    /\ Receive
    /\ app = "W1Products"
    /\ LET currency == IF "currency" \in DOMAIN query THEN query.currency ELSE "USD"
           product == Get(productsDb, productId)
       IN  last' = IF product = Undefined
                   THEN Json(c, "GET /products/:productId", "404", [error |-> "Product not found"])
                   ELSE Json(c, "GET /products/:productId", "200",
                             responseData(productId, product, currency))
    /\ UNCHANGED <<fileVars, chatVars, apiVars, loggedOut, app, users, userTable, pages, session, req, formVars>>

ProductIds == {"100", "101", "102", "999", "constructor", "toString", "__proto__"}
Queries == {NoQuery, [currency |-> "EUR"], [currency |-> "USD"], [currency |-> ""]}

InitProducts ==
    /\ app = "W1Products"
    /\ InitEmpty

NextProducts ==
    \E c \in Senders, productId \in ProductIds, query \in Queries : GetProduct(c, productId, query)

SpecProducts == InitProducts /\ [][NextProducts]_vars

(***************************************************************************)
(* Workshop 1, the books task: GET /books/:bookId over the plain object    *)
(* booksDb, with the query argument summary.                               *)
(***************************************************************************)
booksDb ==
    "201" :> [id |-> "201", title |-> "Clean Code", author |-> "Robert C. Martin", price |-> 35] @@
    "202" :> [id |-> "202", title |-> "The Pragmatic Programmer", author |-> "Andrew Hunt", price |-> 45] @@
    "203" :> [id |-> "203", title |-> "Design Patterns", author |-> "Erich Gamma", price |-> 55]

\* obj[key] for booksDb
GetBookEntry(key) ==
    IF key \in DOMAIN booksDb THEN booksDb[key] ELSE Get(<<>>, key)

\* const { title, author } = value; const book = { title, author }, serialized:
\* a property the value does not have is undefined and left out
TitleAndAuthor(value) ==
    [k \in {"title", "author"} \cap DOMAIN value |-> value[k]]

\* the serialized value: its own enumerable properties
JsonOf(value) ==
    [k \in {"id", "title", "author", "price"} \cap DOMAIN value |-> value[k]]

\* summary == "true"
SummaryAsked(query) == "summary" \in DOMAIN query /\ query.summary = "true"

\* GET /books/:bookId
GetBook(c, bookId, query) ==
    /\ Receive
    /\ app = "W1Books"
    /\ LET entry == GetBookEntry(bookId) IN
       last' = IF SummaryAsked(query)
               THEN IF entry = Undefined
                    THEN Json(c, "GET /books/:bookId", "404", [error |-> "Book not found"])
                    ELSE Json(c, "GET /books/:bookId", "200", TitleAndAuthor(entry))
               ELSE IF entry = Undefined
                    THEN Json(c, "GET /books/:bookId", "200", [error |-> "Book not found"])
                    ELSE Json(c, "GET /books/:bookId", "200", JsonOf(entry))
    /\ UNCHANGED <<fileVars, chatVars, apiVars, loggedOut, app, users, userTable, pages, session, req, formVars>>

BookIds == {"201", "202", "203", "204", "999", "__proto__"}
BookQueries == {NoQuery, [summary |-> "true"], [summary |-> "false"], [summary |-> ""]}

\* the two catalogue APIs of Workshop 1, each an application of its own
InitWorkshop1 ==
    /\ app \in {"W1Products", "W1Books"}
    /\ InitEmpty

NextWorkshop1 ==
    \/ \E c \in Senders, productId \in ProductIds, query \in Queries : GetProduct(c, productId, query)
    \/ \E c \in Senders, bookId \in BookIds, query \in BookQueries : GetBook(c, bookId, query)

SpecWorkshop1 == InitWorkshop1 /\ [][NextWorkshop1]_vars

(***************************************************************************)
(* Workshop 5: the task-manager API.  Users and tasks are rows of the      *)
(* SQLite file spa.db, reached through Prisma; the file outlives the       *)
(* process, so the application starts over the users registered before.    *)
(* request.session is the session as loaded when the request arrived.      *)
(***************************************************************************)
\* the task manager, and the same application extended with the chat
ApiApps == {"W5Tasks", "W5Chat"}

BcryptHash(password) == [alg |-> "bcrypt", pw |-> password]

BcryptCompare(password, hash) == hash.alg = "bcrypt" /\ hash.pw = password

NullUser == [id |-> 0, username |-> None, passwordHash |-> NoHash]

\* prisma.user.findUnique({ where: { username } })
FindUniqueUser(username) ==
    IF \E i \in 1..Len(userTable) : userTable[i].username = username
    THEN userTable[CHOOSE i \in 1..Len(userTable) : userTable[i].username = username]
    ELSE NullUser

\* the users registered in spa.db
RegisteredUsers ==
    <<[id |-> 1, username |-> "alice", passwordHash |-> BcryptHash("pw1")],
      [id |-> 2, username |-> "bob", passwordHash |-> BcryptHash("pw1")]>>

\* Joi.string().required(): the message of the first failure, or none
JoiRequiredString(body, f) ==
    IF f \notin DOMAIN body THEN "\"" \o f \o "\" is required"
    ELSE IF body[f] = "" THEN "\"" \o f \o "\" is not allowed to be empty"
    ELSE None

\* loginSchema.validate(request.body).error.details[0].message
loginSchema(body) ==
    IF JoiRequiredString(body, "username") # None THEN JoiRequiredString(body, "username")
    ELSE JoiRequiredString(body, "password")

\* authRequired: the preHandler lets the request through
SessionHasUser(s) == s.user_id # 0

Unauthorized(c, route) ==
    Json(c, route, "401", [error |-> "You must log in to access this page."])

LoggingIn(c, password, user) ==
    InFlight("comparing", c, user.username, password, user.passwordHash, user.id)

\* POST /login up to its awaits of findUnique and bcrypt.compare
PostLoginApi(r, c, body) ==
    /\ Receive
    /\ app \in ApiApps
    /\ FreeSlot(r)
    /\ IF loginSchema(body) # None
       THEN /\ last' = Json(c, "POST /login", "400", [error |-> loginSchema(body)])
            /\ UNCHANGED req
       ELSE /\ req' = [req EXCEPT ![r] = LoggingIn(c, body.password, FindUniqueUser(body.username))]
            /\ UNCHANGED last
    /\ UNCHANGED <<fileVars, chatVars, apiVars, loggedOut, app, users, userTable, pages, session, formVars>>

\* POST /login from the resolution of its awaits on
PostLoginApiCompared(r) ==
    /\ app \in ApiApps
    /\ req[r].pc = "comparing"
    /\ IF req[r].id = 0 \/ ~BcryptCompare(req[r].password, req[r].hash)
       THEN /\ last' = Json(req[r].client, "POST /login", "401",
                            [error |-> "Invalid username or password."])
            /\ UNCHANGED session
       ELSE /\ session' = [session EXCEPT ![req[r].client] =
                              [@ EXCEPT !.user_id = req[r].id, !.username = req[r].username]]
            /\ last' = Json(req[r].client, "POST /login", "200",
                            [message |-> "Logged in successfully!"])
    /\ req' = [req EXCEPT ![r] = Idle]
    /\ UNCHANGED <<fileVars, chatVars, apiVars, loggedOut, app, users, userTable, pages, formVars, nreq>>

\* GET /logout
GetLogoutApi(c) ==
    /\ Receive
    /\ app \in ApiApps
    /\ IF ~SessionHasUser(session[c])
       THEN /\ last' = Unauthorized(c, "GET /logout")
            /\ UNCHANGED session
       ELSE /\ session' = [session EXCEPT ![c] = SessionDestroyed(@)]
            /\ last' = Json(c, "GET /logout", "200", [message |-> "You have been logged out."])
    /\ UNCHANGED <<fileVars, chatVars, apiVars, loggedOut, app, users, userTable, pages, req, formVars>>

NullTask == [id |-> 0, content |-> None, completed |-> FALSE, userId |-> 0]

\* prisma.task.findMany({ where: { userId } })
FindManyTasks(userId) ==
    LET Owned(task) == task.userId = userId
    IN  SelectSeq(taskTable.rows, Owned)

\* prisma.task.findUnique({ where: { id } })
FindUniqueTask(id) ==
    IF \E i \in 1..Len(taskTable.rows) : taskTable.rows[i].id = id
    THEN taskTable.rows[CHOOSE i \in 1..Len(taskTable.rows) : taskTable.rows[i].id = id]
    ELSE NullTask

\* the row prisma.task.create inserts and returns: its id is the next value
\* of the autoincrement counter, completed defaults to false
NewTask(content, userId) ==
    [id |-> taskTable.seq + 1, content |-> content, completed |-> FALSE, userId |-> userId]

\* prisma.task.create({ data: { content, userId } })
CreateTask(content, userId) ==
    [rows |-> Append(taskTable.rows, NewTask(content, userId)), seq |-> taskTable.seq + 1]

\* prisma.task.delete({ where: { id } })
DeleteTaskRow(id) ==
    LET Other(task) == task.id # id
    IN  [taskTable EXCEPT !.rows = SelectSeq(taskTable.rows, Other)]

\* what the API shows of a task
TaskView(task) == [id |-> task.id, content |-> task.content, completed |-> task.completed]

\* GET /api/tasks
GetTasks(c) ==
    /\ Receive
    /\ app = "W5Tasks"
    /\ last' = IF ~SessionHasUser(session[c]) THEN Unauthorized(c, "GET /api/tasks")
               ELSE LET tasks == FindManyTasks(session[c].user_id)
                    IN  Json(c, "GET /api/tasks", "200",
                             [i \in 1..Len(tasks) |-> TaskView(tasks[i])])
    /\ UNCHANGED <<fileVars, chatVars, apiVars, loggedOut, app, users, userTable, pages, session, req, formVars>>

\* !request.body.content
MissingContent(body) == "content" \notin DOMAIN body \/ body.content = ""

\* POST /api/tasks
PostTask(c, body) ==
    /\ Receive
    /\ app = "W5Tasks"
    /\ IF ~SessionHasUser(session[c])
       THEN /\ last' = Unauthorized(c, "POST /api/tasks")
            /\ UNCHANGED taskTable
       ELSE IF MissingContent(body)
       THEN /\ last' = Json(c, "POST /api/tasks", "400", [error |-> "Missing content"])
            /\ UNCHANGED taskTable
       ELSE /\ taskTable' = CreateTask(body.content, session[c].user_id)
            /\ last' = Json(c, "POST /api/tasks", "201", TaskView(NewTask(body.content, session[c].user_id)))
    /\ UNCHANGED <<fileVars, chatVars, server, loggedOut, app, users, userTable, pages, session, req, formVars>>

\* parseInt: the number the leading decimal digits spell, NaN without one
DigitValue ==
    "0" :> 0 @@ "1" :> 1 @@ "2" :> 2 @@ "3" :> 3 @@ "4" :> 4 @@
    "5" :> 5 @@ "6" :> 6 @@ "7" :> 7 @@ "8" :> 8 @@ "9" :> 9

NaN == [isNaN |-> TRUE, value |-> 0]

RECURSIVE LeadingDigits(_, _)
LeadingDigits(chars, n) ==
    IF chars = <<>> \/ Head(chars) \notin DOMAIN DigitValue THEN n
    ELSE LeadingDigits(Tail(chars), 10 * n + DigitValue[Head(chars)])

parseInt(chars) ==
    IF chars = <<>> \/ Head(chars) \notin DOMAIN DigitValue THEN NaN
    ELSE [isNaN |-> FALSE, value |-> LeadingDigits(chars, 0)]

\* a mutant: the handler does not compare the owner
NotOwnedNever(task, userId) == FALSE

\* task.userId !== request.session.userId
NotOwned(task, userId) == task.userId # userId

Deleting(c, userId, task) ==
    [pc |-> "deleting", client |-> c, username |-> None, password |-> None,
     hash |-> NoHash, id |-> userId, task |-> task]

\* DELETE /api/tasks/:taskId up to its await of findUnique; Prisma rejects
\* an id that is not a number, and the rejection is answered with 500
DeleteTask(r, c, taskId) ==
    /\ Receive
    /\ app = "W5Tasks"
    /\ FreeSlot(r)
    /\ IF ~SessionHasUser(session[c])
       THEN /\ last' = Unauthorized(c, "DELETE /api/tasks/:taskId")
            /\ UNCHANGED req
       ELSE IF parseInt(taskId).isNaN
       THEN /\ last' = ServerError(c, "DELETE /api/tasks/:taskId")
            /\ UNCHANGED req
       ELSE /\ req' = [req EXCEPT ![r] =
                          Deleting(c, session[c].user_id, FindUniqueTask(parseInt(taskId).value))]
            /\ UNCHANGED last
    /\ UNCHANGED <<fileVars, chatVars, apiVars, loggedOut, app, users, userTable, pages, session, formVars>>

\* DELETE /api/tasks/:taskId from the resolution of findUnique on; Prisma
\* rejects the delete of a row that is no longer there
DeleteTaskFound(r) ==
    /\ app = "W5Tasks"
    /\ req[r].pc = "deleting"
    /\ IF req[r].task = NullTask \/ NotOwned(req[r].task, req[r].id)
       THEN /\ last' = Json(req[r].client, "DELETE /api/tasks/:taskId", "403",
                            [error |-> "Forbidden"])
            /\ UNCHANGED taskTable
       ELSE IF FindUniqueTask(req[r].task.id) = NullTask
       THEN /\ last' = ServerError(req[r].client, "DELETE /api/tasks/:taskId")
            /\ UNCHANGED taskTable
       ELSE /\ taskTable' = DeleteTaskRow(req[r].task.id)
            /\ last' = Json(req[r].client, "DELETE /api/tasks/:taskId", "200",
                            [success |-> TRUE])
    /\ req' = [req EXCEPT ![r] = Idle]
    /\ UNCHANGED <<fileVars, chatVars, server, loggedOut, app, users, userTable, pages, session, formVars, nreq>>

LoginBodies ==
    {[username |-> cr[1], password |-> cr[2]] : cr \in Credentials} \cup {[username |-> "alice"]}

TaskBodies == {[content |-> "Sample task"], [content |-> ""]}

TaskIds == {<<"1">>, <<"2">>, <<"a", "b", "c">>}

InitApi ==
    /\ users = <<>>
    /\ userTable = RegisteredUsers
    /\ pages = <<>>
    /\ session = [c \in Clients |-> EmptySession]
    /\ req = [r \in Reqs |-> Idle]
    /\ last = NoReply
    /\ issued = {}
    /\ QuotesDB = <<>>
    /\ Quotes = <<>>
    /\ logged = <<>>
    /\ nreq = 0
    /\ loggedOut = {}
    /\ server = "up"
    /\ taskTable = NoTasks
    /\ sockets = NoSockets
    /\ messageTable = <<>>
    /\ fname = <<>>
    /\ allowed = <<>>

InitTasks ==
    /\ app = "W5Tasks"
    /\ InitApi

NextTasks ==
    \/ \E r \in Reqs, c \in Senders, body \in LoginBodies : PostLoginApi(r, c, body)
    \/ \E r \in Reqs : PostLoginApiCompared(r)
    \/ \E c \in Senders : GetLogoutApi(c)
    \/ \E c \in Senders : GetTasks(c)
    \/ \E c \in Senders, body \in TaskBodies : PostTask(c, body)
    \/ \E r \in Reqs, c \in Senders, taskId \in TaskIds : DeleteTask(r, c, taskId)
    \/ \E r \in Reqs : DeleteTaskFound(r)

SpecTasks == InitTasks /\ [][NextTasks]_vars

(***************************************************************************)
(* Workshop 5: the chat.  GET /ws upgrades to a WebSocket; the connection  *)
(* handler closes the socket of a session without userId and otherwise     *)
(* listens for new_message events.  req.session is the session as loaded   *)
(* at the upgrade.  One browser may hold several connections.              *)
(***************************************************************************)
\* the connections are interchangeable: s1 is opened first
FreeSocket(s) ==
    /\ sockets[s] = NoSocket
    /\ s = "s2" => sockets["s1"].connected

\* connection.socket.close(): the socket is CLOSING until the peer answers
SocketClosing == [NoSocket EXCEPT !.readyState = 2, !.connected = TRUE]

\* a connection that listens for new_message
SocketListening(userId) ==
    [NoSocket EXCEPT !.readyState = 1, !.connected = TRUE, !.userId = userId,
                     !.listening = TRUE]

\* GET /ws
Connect(s, c) ==
    /\ Receive
    /\ app = "W5Chat"
    /\ FreeSocket(s)
    /\ sockets' = [sockets EXCEPT ![s] = IF ~SessionHasUser(session[c]) THEN SocketClosing
                                         ELSE SocketListening(session[c].user_id)]
    /\ UNCHANGED <<fileVars, messageTable, apiVars, loggedOut, app, users, userTable, pages, session,
                   req, last, formVars>>

\* the closing handshake ends, or the peer goes away: the socket is CLOSED
\* and leaves websocketServer.clients
Closed(s) ==
    /\ app = "W5Chat"
    /\ sockets[s].readyState \in {1, 2}
    /\ sockets' = [sockets EXCEPT ![s] = [@ EXCEPT !.readyState = 3, !.listening = FALSE]]
    /\ UNCHANGED <<fileVars, messageTable, apiVars, loggedOut, app, users, userTable, pages, session,
                   req, last, formVars, nreq>>

\* prisma.user.findUnique({ where: { id } })
FindUniqueUserById(id) ==
    IF \E i \in 1..Len(userTable) : userTable[i].id = id
    THEN userTable[CHOOSE i \in 1..Len(userTable) : userTable[i].id = id]
    ELSE NullUser

Broadcasting(s, userId, text) ==
    [pc |-> "broadcasting", client |-> s, username |-> None, password |-> None,
     hash |-> NoHash, id |-> userId, text |-> text]

\* prisma.message.create({ data: { content, userId } })
CreateMessage(content, userId) == Append(messageTable, [content |-> content, userId |-> userId])

\* a new_message event on a connection, up to the await of message.create;
\* a socket without listener drops the event
NewMessage(r, s, text) ==
    /\ Receive
    /\ app = "W5Chat"
    /\ FreeSlot(r)
    /\ sockets[s].readyState \in {1, 2}
    /\ IF ~sockets[s].listening
       THEN UNCHANGED <<messageTable, req>>
       ELSE /\ messageTable' = CreateMessage(text, sockets[s].userId)
            /\ req' = [req EXCEPT ![r] = Broadcasting(s, sockets[s].userId, text)]
    /\ UNCHANGED <<fileVars, sockets, apiVars, loggedOut, app, users, userTable, pages, session, last,
                   formVars>>

\* client.send of message_received
Send(socket, username, text) ==
    [socket EXCEPT !.received = Append(@, [username |-> username, text |-> text])]

\* the mutant: the broadcast skips the test of readyState
IsOpenAlways(socket) == socket.connected

\* client.readyState === 1
IsOpen(socket) == socket.readyState = 1

\* the new_message handler from the resolution of its awaits on: the
\* broadcast over websocketServer.clients
MessageBroadcast(r) ==
    /\ app = "W5Chat"
    /\ req[r].pc = "broadcasting"
    /\ LET user == FindUniqueUserById(req[r].id)
       IN  sockets' = [s \in Sockets |->
                          IF IsOpen(sockets[s]) THEN Send(sockets[s], user.username, req[r].text)
                          ELSE sockets[s]]
    /\ req' = [req EXCEPT ![r] = Idle]
    /\ UNCHANGED <<fileVars, messageTable, apiVars, loggedOut, app, users, userTable, pages, session,
                   last, formVars, nreq>>

Texts == {"hi", "yo"}

InitChat ==
    /\ app = "W5Chat"
    /\ InitApi

NextChat ==
    \/ \E r \in Reqs, c \in Senders, body \in LoginBodies : PostLoginApi(r, c, body)
    \/ \E r \in Reqs : PostLoginApiCompared(r)
    \/ \E c \in Senders : GetLogoutApi(c)
    \/ \E s \in Sockets, c \in Senders : Connect(s, c)
    \/ \E s \in Sockets : Closed(s)
    \/ \E r \in Reqs, s \in Sockets, text \in Texts : NewMessage(r, s, text)
    \/ \E r \in Reqs : MessageBroadcast(r)

\* a suspended handler is resumed once its promises are settled
SpecChat == InitChat /\ [][NextChat]_vars /\ \A r \in Reqs : WF_vars(MessageBroadcast(r))

(***************************************************************************)
(* fastify.allowedFile on its own: the file name is drawn at the start and *)
(* the function is called once.                                            *)
(***************************************************************************)
MaxNameLen == 4

\* every name of up to MaxNameLen characters over a small alphabet, and
\* longer names of the usual shapes
Filenames ==
    UNION {[1..n -> {".", "p", "n", "g", "P"}] : n \in 0..MaxNameLen} \cup
    {<<"a", ".", "j", "p", "g">>, <<"a", ".", "J", "p", "E", "g">>, <<"a", ".", "g", "i", "f">>,
     <<"a", ".", "b", ".", "P", "n", "G">>, <<"a", ".", "p", "n", "g", ".", "e", "x", "e">>,
     <<"a", ".", "p", "n", "g", ".">>, <<"j", "p", "e", "g">>, <<"a", ".", "j", "p", "e", "g", "x">>}

CallAllowedFile ==
    /\ app = "W3AllowedFile"
    /\ allowed = <<>>
    /\ allowed' = <<allowedFile(fname)>>
    /\ UNCHANGED <<fname, chatVars, apiVars, loggedOut, app, users, userTable, pages, session,
                   req, last, formVars, nreq>>

InitAllowedFile ==
    /\ app = "W3AllowedFile"
    /\ fname \in Filenames
    /\ allowed = <<>>
    /\ users = <<>>
    /\ userTable = <<>>
    /\ pages = <<>>
    /\ session = [c \in Clients |-> EmptySession]
    /\ req = [r \in Reqs |-> Idle]
    /\ last = NoReply
    /\ issued = {}
    /\ QuotesDB = <<>>
    /\ Quotes = <<>>
    /\ logged = <<>>
    /\ nreq = 0
    /\ loggedOut = {}
    /\ server = "up"
    /\ taskTable = NoTasks
    /\ sockets = NoSockets
    /\ messageTable = <<>>

NextAllowedFile == CallAllowedFile

SpecAllowedFile == InitAllowedFile /\ [][NextAllowedFile]_vars

(***************************************************************************)
(* The pages of the wiki (Workshop 3, routes/wiki.js): registration, login *)
(* and the two routes that touch fastify.dataStore.pages.                  *)
(***************************************************************************)
ContentNew == Str("<p>Replaced</p>", 15)

\* bodies that pass createSchema, two of them with the same title
WikiBodies ==
    { [title |-> TitleHome, content |-> ContentOk],
      [title |-> TitleHome, content |-> ContentNew],
      [title |-> TitleLong, content |-> ContentOk] }

NextWiki ==
    \/ \E r \in Reqs, c \in Senders, cr \in ProfileCredentials : PostRegisterWiki(r, c, cr[1], cr[2])
    \/ \E r \in Reqs : PostRegisterWikiHashed(r)
    \/ \E r \in Reqs, c \in Senders, cr \in ProfileCredentials : PostLoginWiki(r, c, cr[1], cr[2])
    \/ \E r \in Reqs : PostLoginWikiVerified(r)
    \/ \E c \in Senders, body \in WikiBodies : PostCreate(c, body)
    \/ \E c \in Senders, n \in PageNames : GetWikiPage(c, n)

SpecWiki == InitProfile /\ [][NextWiki]_vars

(***************************************************************************)
(* The claims.                                                             *)
(***************************************************************************)
CsrfRoutes == {"POST /contact_csrf", "POST /share", "POST /search"}

\* C1: a POST to /contact_csrf, /share or /search whose _csrf is not a token
\* issued to that client is rejected before the handler runs: the reply is never
\* the handler's (nothing logged, no quote stored, no search result rendered).
C1_InvalidCsrfRejected ==
    (last.route \in CsrfRoutes /\ ~CsrfValid(last.client, last.body))
        => last.kind \notin {"view", "redirect"}

StoredCount(u) ==
    (IF u \in DOMAIN users THEN 1 ELSE 0)
        + Cardinality({i \in 1..Len(userTable) : userTable[i].username = u})

HashField(record) ==
    IF "passwordHash" \in DOMAIN record THEN record.passwordHash ELSE record.password

StoredHashes(u) ==
    (IF u \in DOMAIN users THEN {HashField(users[u])} ELSE {})
        \cup {userTable[i].password_hash : i \in {j \in 1..Len(userTable) : userTable[j].username = u}}

StoredRecords(u) ==
    <<IF u \in DOMAIN users THEN <<users[u]>> ELSE <<>>,
      {userTable[i] : i \in {j \in 1..Len(userTable) : userTable[j].username = u}}>>

\* the steps of POST /register: its arrival, and the write after its awaits
RegisterArrives(r, c, u, p) ==
    PostRegister(r, c, u, p) \/ PostRegisterDb(r, c, u, p) \/ PostRegisterWiki(r, c, u, p)

RegisterWrites(r) ==
    PostRegisterHashed(r) \/ RegisterInserted(r) \/ PostRegisterWikiHashed(r)

C4_StoredRecordKept ==
    [][/\ \A r \in Reqs, c \in Clients, cr \in Credentials :
             (RegisterArrives(r, c, cr[1], cr[2]) /\ StoredCount(cr[1]) > 0) =>
                 /\ <<users, userTable>>' = <<users, userTable>>
                 /\ last' = Redirect(c, "POST /register", "/register")
                 /\ session'[c].flash.danger =
                        Append(session[c].flash.danger, "Username already exists!")
       /\ \A r \in Reqs :
             (RegisterWrites(r) /\ StoredCount(req[r].username) > 0) =>
                 /\ <<users, userTable>>' = <<users, userTable>>
                 /\ last' = Redirect(req[r].client, "POST /register", "/register")
                 /\ session'[req[r].client].flash.danger =
                        Append(session[req[r].client].flash.danger, "Username already exists!")]_vars

\* the steps of POST /login: its arrival, and the step after argon2.verify
LoginArrives(r, c, u, p) ==
    PostLogin(r, c, u, p) \/ PostLoginDb(r, c, u, p) \/ PostLoginWiki(r, c, u, p)

LoginCompletes(r) ==
    PostLoginVerified(r) \/ LoginVerifiedDb(r) \/ PostLoginWikiVerified(r)

UserKeys(s) == <<s.user, s.user_id, s.username>>

SessionUsers(s) == {s.user, s.username} \ {None}

\* the password submitted is the one whose hash the handler read from the record
PasswordMatches(r) == req[r].hash = [alg |-> "argon2id", pw |-> req[r].password]

LoginRefused(c) ==
    /\ UserKeys(session'[c]) = UserKeys(session[c])
    /\ session'[c].flash.danger =
           Append(session[c].flash.danger, "Invalid username or password.")
    /\ last' = Redirect(c, "POST /login", "/login")

C6_OnlyHashStored ==
    /\ [](\A u \in Usernames : \A h \in StoredHashes(u) : h.alg = "argon2id")
    /\ [][\A u \in Usernames : StoredHashes(u)' # StoredHashes(u) =>
             \E r \in Reqs :
                 /\ RegisterWrites(r)
                 /\ req[r].username = u
                 /\ StoredHashes(u)' \ StoredHashes(u) =
                        {[alg |-> "argon2id", pw |-> req[r].password]}]_vars

C6_Witness ==
    /\ app = "W3Wiki"
    /\ StoredHashes("alice") = {[alg |-> "argon2id", pw |-> "pw2"]}
    /\ session["c1"].username = "alice"

\* the routes that ask for a logged-in session
ProtectedRequest(c) ==
    \/ GetProfile(c)
    \/ GetProfileWiki(c)
    \/ GetCreate(c)
    \/ \E body \in CreateBodies : PostCreate(c, body)

\* C7: after GET /logout the session holds no user: until a later successful
\* POST /login, a request of that client to a protected route is redirected
\* to /login.
C7_LoggedOutIsUnauthenticated ==
    /\ [](\A c \in loggedOut : SessionUsers(session[c]) = {})
    /\ [][\A c \in Clients : GetLogout(c) =>
             /\ SessionUsers(session'[c]) = {}
             /\ last' = Redirect(c, "GET /logout", "/login")]_vars
    /\ [][\A c \in loggedOut : ProtectedRequest(c) =>
             /\ last'.client = c
             /\ last'.kind = "redirect"
             /\ last'.target = "/login"
             /\ pages' = pages]_vars

C7_Witness ==
    /\ "c1" \in loggedOut
    /\ last = Redirect("c1", "GET /profile", "/login")

\* the steps that render the messages collectMessages returns
RendersMessages(c) ==
    \/ GetRegister(c)
    \/ GetLogin(c)
    \/ GetProfileWiki(c) /\ session[c].username # None
    \/ GetCreate(c) /\ session[c].username # None
    \/ \E n \in PageNames : GetWikiPage(c, n) /\ ~HasPage(n)

\* C8: a flash message is shown at most once: the render that reads a session's
\* messages removes them from the session, so that no later render returns
\* them unless a handler sets them again.
C8_FlashShownOnce ==
    [][\A c \in Clients : RendersMessages(c) =>
          /\ last'.messages = CollectMessages(session[c].flash)
          /\ session'[c].flash = NoFlash]_vars

C8_Witness ==
    /\ last.route = "GET /login"
    /\ last.messages = <<[category |-> "danger", message |-> "Invalid username or password."]>>
    /\ session[last.client].flash = NoFlash

\* C9: POST /create stores a page only for a session that holds a username, with
\* that username as author; otherwise nothing is stored, the danger flash is set
\* and the reply redirects to /login.  Hence every stored page's author is a
\* registered username.
C9_PagesHaveAuthors ==
    /\ [][\A c \in Clients, body \in CreateBodies : PostCreate(c, body) =>
             IF session[c].username = None
             THEN /\ pages' = pages
                  /\ session'[c].flash.danger =
                         Append(session[c].flash.danger, "You must be logged in to create a page.")
                  /\ last'.kind = "redirect" /\ last'.target = "/login"
             ELSE /\ \E k \in DOMAIN pages' :
                        /\ pages'[k].author = session[c].username
                        /\ pages'[k].content = Field(body, "content")
                        /\ \A j \in DOMAIN pages' \ {k} : j \in DOMAIN pages /\ pages'[j] = pages[j]]_vars
    /\ [](\A k \in DOMAIN pages : StoredCount(pages[k].author) > 0)

C9_Witness ==
    /\ "Home" \in DOMAIN pages
    /\ pages["Home"].author = "alice"
    /\ session[last.client].username = "alice"
    /\ last.route = "POST /create"

\* C10: in the Quill wiki a POST /create whose title is missing, empty or longer
\* than 50 characters, or whose content is missing or empty, is rejected: no page
\* is stored or changed, a flash message is set and the reply redirects to /create.
C10_InvalidPageRejected ==
    [][\A c \in Clients, body \in CreateBodies :
          (PostCreate(c, body) /\ ~Validates(createSchema, body) /\ session[c].username # None) =>
              /\ pages' = pages
              /\ session'[c].flash # session[c].flash
              /\ last'.kind = "redirect" /\ last'.target = "/create"]_vars

\* the files of the model whose extension is not one of png, jpg, jpeg, gif
DisallowedFiles == {<<"m", "e">>, <<"m", "e", ".", "p", "n", "g", ".", "e", "x", "e">>}

DangerFlashSet(c) ==
    /\ Len(session'[c].flash.danger) = Len(session[c].flash.danger) + 1
    /\ UserKeys(session'[c]) = UserKeys(session[c])

\* C11: POST /profile changes a stored avatar only for a session with a
\* username, a submitted file and an allowed extension, and then only the avatar
\* of the session's own user; otherwise every user record is left as it was, a
\* danger flash is set and the reply redirects to /login (unauthenticated) or to
\* /profile (no file, disallowed extension).
C11_AvatarOnlyOwnAndAllowed ==
    /\ [][\A r \in Reqs, c \in Clients, file \in Files : PostProfile(r, c, file) =>
             /\ users' = users
             /\ IF session[c].username = None
                THEN /\ DangerFlashSet(c)
                     /\ last' = Redirect(c, "POST /profile", "/login")
                ELSE IF file = NoFile \/ file \in DisallowedFiles
                THEN /\ DangerFlashSet(c)
                     /\ last' = Redirect(c, "POST /profile", "/profile")
                ELSE /\ req'[r].pc = "writing"
                     /\ req'[r].username = session[c].username
                     /\ req'[r].file = file
                     /\ session' = session]_vars
    /\ [][\A r \in Reqs : PostProfileWritten(r) =>
             /\ req[r].file \notin DisallowedFiles \cup {NoFile}
             /\ DOMAIN users' = DOMAIN users
             /\ \A u \in DOMAIN users :
                   IF u = req[r].username
                   THEN /\ users'[u].password = users[u].password
                        /\ users'[u].avatar.name = req[r].file
                   ELSE users'[u] = users[u]]_vars

C11_Witness ==
    /\ DOMAIN users = {"alice", "bob"}
    /\ users["alice"].avatar # NoAvatar
    /\ users["bob"].avatar = NoAvatar
    /\ last = Redirect("c1", "POST /profile", "/profile")
    /\ session["c1"].username = "alice"

\* a field of a body that is a string of lo to hi characters
StringField(body, f, lo, hi) ==
    /\ f \in DOMAIN body
    /\ body[f].type = "string"
    /\ lo <= body[f].len /\ body[f].len <= hi

ContactAccepted(body) ==
    /\ StringField(body, "name", 3, 25)
    /\ StringField(body, "message", 0, 200)
    /\ "_csrf" \in DOMAIN body /\ body["_csrf"].type = "string"

\* C12: POST /contact_csrf runs its handler (the message is logged, the view gets
\* the submitted name) only for a body with a name of 3 to 25 characters, a
\* message of at most 200 and a _csrf string; for any other body the handler
\* does not run and the form is rendered again with the validation errors and a
\* newly generated token.
C12_ContactValidated ==
    [][\A c \in Clients, body \in ContactBodies : PostContactCsrf(c, body) =>
          IF ContactAccepted(body)
          THEN /\ logged' = Append(logged, [name |-> body.name, message |-> body.message])
               /\ last'.kind = "view" /\ last'.target = "contact_csrf"
               /\ last'.submittedName = body.name
               /\ c \in issued'
          ELSE /\ logged' = logged
               /\ last'.kind = "errors" /\ last'.target = "contact_csrf"
               /\ last'.submittedName = Undefined
               /\ c \in issued']_vars

C12_Witness ==
    /\ last.route = "POST /contact_csrf"
    /\ last.kind = "errors"
    /\ Field(last.body, "name") = NameLong
    /\ Len(logged) = 1
    /\ last.client \in issued

\* the submissions the task text calls valid: an author name of at least 3
\* characters and a quote of at most 300
ShareAccepted(body) ==
    /\ "author" \in DOMAIN body /\ body.author.type = "string" /\ body.author.len >= 3
    /\ "quote" \in DOMAIN body /\ body.quote.type = "string" /\ body.quote.len <= 300

\* C13: a submission to /share is valid exactly when the author name has at
\* least 3 characters and the quote at most 300; every valid submission is
\* stored as one new quote.
C13_ShareValidExactly ==
    [][\A c \in Clients, body \in ShareBodies : PostShare(c, body) =>
          IF ShareAccepted(body)
          THEN /\ QuotesDB' = Append(QuotesDB, [author |-> body.author, quote |-> body.quote])
               /\ last'.kind # "errors"
          ELSE /\ QuotesDB' = QuotesDB
               /\ last'.kind = "errors"]_vars

\* the quotes of a collection whose author is the given name, letter case
\* aside, in the order of the collection
QuotesBy(quotes, author) ==
    LET SameAuthor(q) == ToLowerCase(q.author).text = ToLowerCase(author).text
    IN  SelectSeq(quotes, SameAuthor)

\* C14: POST /search renders exactly the stored quotes whose author is the
\* submitted name compared case-insensitively, in the order they were stored (the
\* collection as it was at some moment of the request), and leaves the
\* collection unchanged.
C14_SearchRendersMatches ==
    [][\A r \in Reqs : PostSearchRendered(r) =>
          /\ QuotesDB' = QuotesDB
          /\ \E n \in 0..Len(QuotesDB) :
                last'.Quotes = QuotesBy(SubSeq(QuotesDB, 1, n), req[r].body.author)]_vars

\* C15: in the Sequelize example the users persist in database.db: a user
\* registered before the server is stopped is still stored, with the same
\* password hash, after the server is started again.
C15_UsersPersist ==
    [][(server # "up" /\ server' = "up") =>
          \A u \in Usernames : StoredHashes(u)' = StoredHashes(u)]_vars

\* C16: GET /logout destroys the session and leaves the message 'You have been
\* logged out.' for the login page the reply redirects to.
C16_LogoutMessageShown ==
    [][\A c \in Clients : GetLogout(c) =>
          /\ SessionUsers(session'[c]) = {}
          /\ last' = Redirect(c, "GET /logout", "/login")
          /\ \E k \in DOMAIN session'[c].flash :
                \E i \in 1..Len(session'[c].flash[k]) :
                    session'[c].flash[k][i] = "You have been logged out."]_vars

\* C17: in the Workshop 4 example a POST /login with valid credentials puts the
\* user in the session, sets a success message and redirects to /profile.
C17_LoginRedirectsToProfile ==
    [][\A r \in Reqs :
          ((PostLoginVerified(r) \/ LoginVerifiedDb(r)) /\ PasswordMatches(r)) =>
              /\ session'[req[r].client].user = req[r].username
              /\ Len(session'[req[r].client].flash.success)
                     = Len(session[req[r].client].flash.success) + 1
              /\ last' = Redirect(req[r].client, "POST /login", "/profile")]_vars

\* C18: in the Workshop 3 apps a POST /login with valid credentials stores the
\* username in the session, sets a success message and redirects to /home, and
\* /home is a route the application serves.
C18_LoginRedirectsToServedHome ==
    /\ [][\A r \in Reqs : (PostLoginWikiVerified(r) /\ PasswordMatches(r)) =>
             /\ session'[req[r].client].username = req[r].username
             /\ Len(session'[req[r].client].flash.success)
                    = Len(session[req[r].client].flash.success) + 1
             /\ last' = Redirect(req[r].client, "POST /login", "/home")]_vars
    /\ [][\A c \in Clients : GetPath(c, "/home") => last'.kind = "view"]_vars

\* C19: GET /products/:productId answers 404 with {error: 'Product not found'}
\* for every id that is not a key of the catalogue, and for every id of the
\* catalogue 200 with the id, the product's name and price and the currency of
\* the query, 'USD' when the query has none.
C19_ProductOr404 ==
    [][\A c \in Clients, productId \in ProductIds, query \in Queries :
          GetProduct(c, productId, query) =>
              IF productId \in {"100", "101", "102"}
              THEN last' = Json(c, "GET /products/:productId", "200",
                                [id |-> productId,
                                 name |-> productsDb[productId].name,
                                 price |-> productsDb[productId].price,
                                 currency |-> IF query = NoQuery THEN "USD" ELSE query.currency])
              ELSE last' = Json(c, "GET /products/:productId", "404",
                                [error |-> "Product not found"])]_vars

\* the rows a task table holds
Rows(table) == {table.rows[i] : i \in 1..Len(table.rows)}

\* C20, as stated: GET /api/tasks returns only tasks of the session's user;
\* DELETE /api/tasks/:taskId removes a task only when it exists and belongs to
\* the session's user, and every DELETE that removes nothing is answered 403.
C20_DeleteOr403 ==
    /\ [][\A c \in Clients : (GetTasks(c) /\ SessionHasUser(session[c])) =>
             \A i \in DOMAIN last'.body : \E task \in Rows(taskTable) :
                 task.id = last'.body[i].id /\ task.userId = session[c].user_id]_vars
    /\ [][Rows(taskTable) \ Rows(taskTable') # {} =>
             \E r \in Reqs : /\ DeleteTaskFound(r)
                             /\ Rows(taskTable) \ Rows(taskTable') = {req[r].task}
                             /\ req[r].task.userId = req[r].id]_vars
    /\ [][\A r \in Reqs : (DeleteTaskFound(r) /\ taskTable' = taskTable) =>
             last'.target = "403"]_vars
    /\ [][\A r \in Reqs, c \in Clients, taskId \in TaskIds :
             (DeleteTask(r, c, taskId) /\ UNCHANGED req) => last'.target = "403"]_vars

\* C20, amended: GET /api/tasks lists only tasks of the session's user and is
\* answered 401 without one; a step removes a task only as the DELETE of a
\* request whose session user owns it, removes that task alone and answers 200;
\* a DELETE that removes nothing answers 401 when the session has no user, 500
\* when the id is not a number or the task was removed while the request
\* waited, and 403 when the lookup found no task or a task of another user.
C20_TasksOnlyOwn ==
    /\ [][\A c \in Clients : GetTasks(c) =>
             IF session[c].user_id = 0 THEN last'.target = "401"
             ELSE /\ last'.target = "200"
                  /\ \A i \in DOMAIN last'.body : \E task \in Rows(taskTable) :
                         task.id = last'.body[i].id /\ task.userId = session[c].user_id]_vars
    /\ [][Rows(taskTable) \ Rows(taskTable') # {} =>
             \E r \in Reqs : /\ DeleteTaskFound(r)
                             /\ Rows(taskTable) \ Rows(taskTable') = {req[r].task}
                             /\ req[r].task.userId = req[r].id
                             /\ req[r].id # 0
                             /\ last'.target = "200"]_vars
    /\ [][\A r \in Reqs : (DeleteTaskFound(r) /\ taskTable' = taskTable) =>
             last'.target = IF req[r].task = NullTask \/ req[r].task.userId # req[r].id
                            THEN "403" ELSE "500"]_vars
    /\ [][\A r \in Reqs, c \in Clients, taskId \in TaskIds :
             (DeleteTask(r, c, taskId) /\ UNCHANGED req) =>
                 last'.target = IF session[c].user_id = 0 THEN "401" ELSE "500"]_vars

\* a logged-in client was refused the deletion of a task of another user
C20_Witness ==
    /\ last.route = "DELETE /api/tasks/:taskId"
    /\ last.target = "403"
    /\ session[last.client].user_id # 0
    /\ taskTable.seq = 1
    /\ \E task \in Rows(taskTable) : task.userId # session[last.client].user_id

HasAllowedExtension(name) ==
    \E i \in 1..Len(name) :
        /\ name[i] = "."
        /\ \A j \in (i + 1)..Len(name) : name[j] # "."
        /\ \E ext \in {<<"p", "n", "g">>, <<"j", "p", "g">>, <<"j", "p", "e", "g">>, <<"g", "i", "f">>} :
               /\ Len(ext) = Len(name) - i
               /\ \A k \in 1..Len(ext) :
                      name[i + k] = ext[k] \/ (name[i + k] \in DOMAIN LowerCaseOf /\ LowerCaseOf[name[i + k]] = ext[k])

\* C22: allowedFile(filename) is true exactly when the filename has a '.' and
\* the text after its last '.', lower-cased, is one of png, jpg, jpeg, gif; it is
\* false for every other name, among them names without a dot and names that
\* end in a dot.
C22_AllowedFileExact ==
    allowed # <<>> =>
        /\ allowed[1] = HasAllowedExtension(fname)
        /\ (\A i \in 1..Len(fname) : fname[i] # ".") => allowed[1] = FALSE
        /\ (fname # <<>> /\ fname[Len(fname)] = ".") => allowed[1] = FALSE

\* a name with two dots and an upper-case extension was accepted
C22_Witness ==
    /\ fname = <<"a", ".", "b", ".", "P", "n", "G">>
    /\ allowed = <<TRUE>>

\* C23: with several POST /search in flight, each response holds only quotes
\* whose author is, letter case aside, the author submitted in that request.
C23_SearchResultsOwnRequest ==
    [][\A r \in Reqs : PostSearchRendered(r) =>
          \A i \in 1..Len(last'.Quotes) :
              ToLowerCase(last'.Quotes[i].author).text = ToLowerCase(req[r].body.author).text]_vars

\* C24: in the Sequelize example the sync started at plugin load is over
\* before a handler reads or writes the user table, so that it never removes a
\* record a registration has created: no SELECT or INSERT of POST /register or
\* POST /login happens while the sync is pending, and no registration is under
\* way when the sync takes effect.
C24_SyncBeforeHandlers ==
    /\ [][(\/ \E r \in Reqs, c \in Clients, cr \in Credentials :
                 PostRegisterDb(r, c, cr[1], cr[2]) \/ PostLoginDb(r, c, cr[1], cr[2])
           \/ \E r \in Reqs : RegisterInserted(r))
          => server = "up"]_vars
    /\ [][Synced => userTable = <<>> /\ \A r \in Reqs : req[r].pc = "idle"]_vars


\* the messages of list old are still in the session: new extends old
KeepsMessages(old, new) ==
    /\ Len(old) <= Len(new)
    /\ \A i \in 1..Len(old) : new[i] = old[i]

\* a step takes messages out of the session of client c
FlashRemoved(c) ==
    \E k \in DOMAIN NoFlash : ~KeepsMessages(session[c].flash[k], session'[c].flash[k])

\* C25: no flash message is consumed without being displayed: a step that takes
\* messages out of a session (a handler that reads them with collectMessages,
\* or GET /logout) replies with a rendered view that is passed exactly those
\* messages.
C25_FlashNeverLost ==
    [][\A c \in Clients : FlashRemoved(c) =>
          /\ last'.client = c
          /\ last'.kind = "view"
          /\ last'.messages = CollectMessages(session[c].flash)]_vars

\* C26: once a page is stored under a title, no later request changes its
\* content or its author: neither a POST /create with the same title, from
\* the same or another logged-in user, nor GET /wiki/:page_name.
C26_PagesNeverReplaced ==
    [][\A k \in DOMAIN pages :
          /\ k \in DOMAIN pages'
          /\ pages'[k].content = pages[k].content
          /\ pages'[k].author = pages[k].author]_vars

\* what a refused login leaves behind for client c: the danger message in the
\* session of c, the redirect to /login, and nothing else
FailedLoginEffect(c) ==
    /\ session' = [session EXCEPT ![c] = RequestFlash(@, "danger", "Invalid username or password.")]
    /\ last' = Redirect(c, "POST /login", "/login")
    /\ users' = users
    /\ userTable' = userTable

C28_BookOr404 ==
    [][\A c \in Clients, bookId \in BookIds, query \in BookQueries :
          GetBook(c, bookId, query) =>
              IF bookId \in {"201", "202", "203"}
              THEN last' = Json(c, "GET /books/:bookId", "200",
                                IF query # NoQuery /\ query.summary = "true"
                                THEN [title |-> booksDb[bookId].title,
                                      author |-> booksDb[bookId].author]
                                ELSE booksDb[bookId])
              ELSE last' = Json(c, "GET /books/:bookId", "404",
                                [error |-> "Book not found"])]_vars

====
